---- MODULE Spec2Model ----
(***************************************************************************)
(* Model of the generic entity manager: ManagementEntity over one of its   *)
(* strategies (in-memory, SQL adapter, TypeORM repository, or a custom      *)
(* strategy that implements only the mandatory operations), together with  *)
(* the query utilities applyFunctionalFilters and paginate.                 *)
(*                                                                         *)
(* Arrays are 1-based sequences; a JS index i is the model's i + 1 and the *)
(* JS "not found" index -1 is the model's 0.  An optional value (a field   *)
(* that may be undefined) is a sequence of length 0 or 1.                   *)
(***************************************************************************)
EXTENDS Integers, Sequences, FiniteSets, TLC

\* ------------------------------------------------------------------ bounds
\* Largest number of entities the store is allowed to grow to.
MaxStore == 3
\* Length of the longest sample sequence handed to paginate directly.
MaxItems == 12
\* The most manager calls issued without awaiting each other.
MaxTasks == 3

\* ------------------------------------------------------- program constants
DefaultPage == 1
DefaultPageSize == 10

\* ---------------------------------------------------------------- entities
\* An entity is { id, name? }; Missing marks a property the object lacks.
Missing == "missing"
Ids == {1, 2}
Names == {Missing, "x"}
Entities == [id : Ids, name : Names]
\* The smaller universe used where only the identity of arrays matters.
SnapEntities == {[id |-> 1, name |-> Missing], [id |-> 2, name |-> "x"]}

\* Optional values.
None == <<>>
Some(v) == <<v>>
\* a ?? b
Nullish(opt, default) == IF opt = None THEN default ELSE opt[1]

Max(a, b) == IF a >= b THEN a ELSE b
Min(a, b) == IF a <= b THEN a ELSE b
\* Math.ceil(a / b) for a >= 0, b >= 1
CeilDiv(a, b) == (a + b - 1) \div b

\* { ...a, ...b }: every property b has overrides a's
Merge(a, b) ==
    [id |-> b.id, name |-> IF b.name = Missing THEN a.name ELSE b.name]

\* ---------------------------------------------------------- equality policy
EqualsFns == {"Object.is", "byId"}
\* Object.is compares object identity; every distinct value of Entities is
\* one object.  byId is (a, b) => a.id === b.id.
Equals(fn, a, b) ==
    IF fn = "Object.is" THEN a = b ELSE a.id = b.id

\* --------------------------------------------- predicates and comparators
PredicateNames == {"idIs1", "hasName"}
Predicate(p, e) ==
    IF p = "idIs1" THEN e.id = 1 ELSE e.name # Missing

\* "byIdDesc" is (a, b) => b.id - a.id; "byName" orders a missing name first.
ComparatorNames == {"byIdDesc", "byName"}
NameRank(e) == IF e.name = Missing THEN 0 ELSE 1
Comparator(c, a, b) ==
    IF c = "byIdDesc" THEN b.id - a.id ELSE NameRank(a) - NameRank(b)

\* Array.prototype.slice(start, end) with 0-based start, end
Slice(items, start, end) ==
    LET s == Min(Max(start, 0), Len(items))
        e == Min(Max(end, 0), Len(items))
    IN  IF e <= s THEN <<>> ELSE SubSeq(items, s + 1, e)

\* Array.prototype.findIndex with e => equalsFn(e, target); 0 when none
FindIndex(items, target, fn) ==
    IF \E i \in 1..Len(items) : Equals(fn, items[i], target)
    THEN CHOOSE i \in 1..Len(items) :
            /\ Equals(fn, items[i], target)
            /\ \A j \in 1..(i - 1) : ~Equals(fn, items[j], target)
    ELSE 0

\* Array.prototype.find with a predicate; None when none matches
FindFirst(items, p) ==
    IF \E i \in 1..Len(items) : Predicate(p, items[i])
    THEN Some(items[CHOOSE i \in 1..Len(items) :
                        /\ Predicate(p, items[i])
                        /\ \A j \in 1..(i - 1) : ~Predicate(p, items[j])])
    ELSE None

\* Array.prototype.splice(index, 1)
Splice1(items, i) ==
    [k \in 1..(Len(items) - 1) |-> IF k < i THEN items[k] ELSE items[k + 1]]

\* ---------------------------------------------------------- query-utils.ts
\* The callback of items.filter: predicate first, then each filter in order.
RECURSIVE AllFiltersOk(_, _)
AllFiltersOk(filters, e) ==
    IF filters = <<>> THEN TRUE
    ELSE IF ~Predicate(Head(filters), e) THEN FALSE
    ELSE AllFiltersOk(Tail(filters), e)

Passes(options, e) ==
    LET mainOk == IF options.predicate # None
                  THEN Predicate(options.predicate[1], e) ELSE TRUE
    IN  IF ~mainOk THEN FALSE ELSE AllFiltersOk(options.filters, e)

RECURSIVE FilterItems(_, _)
FilterItems(items, options) ==
    IF items = <<>> THEN <<>>
    ELSE IF Passes(options, Head(items))
         THEN <<Head(items)>> \o FilterItems(Tail(items), options)
         ELSE FilterItems(Tail(items), options)

\* Mutant of InsertSorted: x goes before the elements it compares equal to.
RECURSIVE InsertSortedUnstable(_, _, _)
InsertSortedUnstable(sorted, x, c) ==
    IF sorted = <<>> THEN <<x>>
    ELSE IF Comparator(c, Head(sorted), x) < 0
         THEN <<Head(sorted)>> \o InsertSortedUnstable(Tail(sorted), x, c)
         ELSE <<x>> \o sorted

\* Array.prototype.sort is stable: x goes after every element that does not
\* compare greater than it.
RECURSIVE InsertSorted(_, _, _)
InsertSorted(sorted, x, c) ==
    IF sorted = <<>> THEN <<x>>
    ELSE IF Comparator(c, Head(sorted), x) <= 0
         THEN <<Head(sorted)>> \o InsertSorted(Tail(sorted), x, c)
         ELSE <<x>> \o sorted

RECURSIVE SortItems(_, _)
SortItems(items, c) ==
    IF items = <<>> THEN <<>>
    ELSE InsertSorted(SortItems(SubSeq(items, 1, Len(items) - 1), c),
                      items[Len(items)], c)

applyFunctionalFilters(items, options) ==
    LET filtered == FilterItems(items, options)
    IN  IF options.sortBy # None
        THEN SortItems(filtered, options.sortBy[1])
        ELSE filtered

\* Mutant of inputAfterFilters: sortBy sorts the argument array itself.
inputSortedInPlace(items, options) ==
    IF options.sortBy # None THEN SortItems(items, options.sortBy[1])
    ELSE items

\* The argument array of applyFunctionalFilters once it has returned:
\* filter builds a new array and sort runs on a spread copy of that.
inputAfterFilters(items, options) == items

\* Mutant of paginate: no floor of one page.
paginateNoFloor(items, page, pageSize) ==
    LET safePage   == Max(1, page)
        safeSize   == Max(1, pageSize)
        totalItems == Len(items)
        totalPages == CeilDiv(totalItems, safeSize)
        realPage   == Min(safePage, totalPages)
        start      == (realPage - 1) * safeSize
        end        == start + safeSize
    IN  [items      |-> Slice(items, start, end),
         page       |-> realPage,
         pageSize   |-> safeSize,
         totalItems |-> totalItems,
         totalPages |-> totalPages,
         hasNext    |-> realPage < totalPages,
         hasPrev    |-> realPage > 1]

\* Mutant of paginate: the slice starts one page late.
paginateLateStart(items, page, pageSize) ==
    LET safePage   == Max(1, page)
        safeSize   == Max(1, pageSize)
        totalItems == Len(items)
        totalPages == Max(1, CeilDiv(totalItems, safeSize))
        realPage   == Min(safePage, totalPages)
        start      == realPage * safeSize
        end        == start + safeSize
    IN  [items      |-> Slice(items, start, end),
         page       |-> realPage,
         pageSize   |-> safeSize,
         totalItems |-> totalItems,
         totalPages |-> totalPages,
         hasNext    |-> realPage < totalPages,
         hasPrev    |-> realPage > 1]

paginate(items, page, pageSize) ==
    LET safePage   == Max(1, page)
        safeSize   == Max(1, pageSize)
        totalItems == Len(items)
        totalPages == Max(1, CeilDiv(totalItems, safeSize))
        realPage   == Min(safePage, totalPages)
        start      == (realPage - 1) * safeSize
        end        == start + safeSize
    IN  [items      |-> Slice(items, start, end),
         page       |-> realPage,
         pageSize   |-> safeSize,
         totalItems |-> totalItems,
         totalPages |-> totalPages,
         hasNext    |-> realPage < totalPages,
         hasPrev    |-> realPage > 1]

\* ------------------------------------------------------- strategy results
\* What one strategy call leaves behind: the stored rows, whether the call
\* returned ("ok") or raised ("fault"), and the value it returned.
Ok(store, value) == [store |-> store, outcome |-> "ok", value |-> value]
Fault(store) == [store |-> store, outcome |-> "fault", value |-> "fault"]
\* An array handed to the caller: its items, and whether it is the very
\* array object the strategy keeps in this.entities.
ArrayResult(items, sameObject) == [items |-> items, sameObject |-> sameObject]

\* ------------------------------------------------- in-memory.strategy.ts
\* Mutant of InMemoryAdd: an entity already stored is not stored again.
InMemoryAddDedup(store, entity) ==
    IF \E i \in 1..Len(store) : store[i] = entity THEN store
    ELSE Append(store, entity)

InMemoryAdd(store, entity) == Append(store, entity)

\* Mutant of InMemoryRemove: every equal entity is removed.
InMemoryRemoveAll(store, entity, fn) ==
    IF FindIndex(store, entity, fn) = 0 THEN Ok(store, FALSE)
    ELSE Ok(SelectSeq(store, LAMBDA e : ~Equals(fn, e, entity)), TRUE)

InMemoryRemove(store, entity, fn) ==
    LET index == FindIndex(store, entity, fn)
    IN  IF index = 0 THEN Ok(store, FALSE)
        ELSE Ok(Splice1(store, index), TRUE)

\* Mutant of InMemoryGetAll: this.entities itself is returned.
InMemoryGetAllLive(store) == ArrayResult(store, TRUE)

InMemoryGetAll(store) == ArrayResult(store, FALSE)

InMemoryUpdate(store, oldEntity, newEntity, fn) ==
    LET index == FindIndex(store, oldEntity, fn)
    IN  IF index = 0 THEN Ok(store, FALSE)
        ELSE Ok([store EXCEPT ![index] = newEntity], TRUE)

InMemoryCount(store) == Len(store)

\* Mutant of InMemoryGetOne: the last matching entity is returned.
InMemoryGetOneLast(store, p) ==
    IF \E i \in 1..Len(store) : Predicate(p, store[i])
    THEN Some(store[CHOOSE i \in 1..Len(store) :
                        /\ Predicate(p, store[i])
                        /\ \A j \in (i + 1)..Len(store) :
                              ~Predicate(p, store[j])])
    ELSE None

InMemoryGetOne(store, p) == FindFirst(store, p)

InMemoryFind(store, options) ==
    ArrayResult(applyFunctionalFilters(store, options), FALSE)

\* Mutant of InMemoryFindPage: the page is cut before the filters run.
InMemoryFindPageSliceFirst(store, options) ==
    LET paged == paginate(store, Nullish(options.page, DefaultPage),
                          Nullish(options.pageSize, DefaultPageSize))
    IN  [paged EXCEPT !.items = applyFunctionalFilters(paged.items, options)]

InMemoryFindPage(store, options) ==
    LET filtered == applyFunctionalFilters(store, options)
    IN  paginate(filtered, Nullish(options.page, DefaultPage),
                 Nullish(options.pageSize, DefaultPageSize))

\* this.entities = []: a new, empty array object
InMemoryClear(store) == ArrayResult(<<>>, FALSE)

\* ------------------------------------------------------- sql.strategy.ts
\* The adapter the strategy is given: a table of rows with insert,
\* update/delete by the equality function (first match), selectAll and
\* countAll; select returns the rows and leaves the functional options to
\* the strategy; selectPage is LIMIT pageSize OFFSET (page - 1) * pageSize
\* with the total of the table.
AdapterInsert(table, entity) == Append(table, entity)
AdapterDelete(table, entity, fn) == InMemoryRemove(table, entity, fn)
AdapterUpdate(table, oldEntity, newEntity, fn) ==
    InMemoryUpdate(table, oldEntity, newEntity, fn)
AdapterSelectAll(table) == table
AdapterCountAll(table) == Len(table)
AdapterSelect(table, options) == table
AdapterSelectPage(table, options) ==
    LET page     == Max(1, Nullish(options.page, DefaultPage))
        pageSize == Max(1, Nullish(options.pageSize, DefaultPageSize))
    IN  [items |-> Slice(table, (page - 1) * pageSize, page * pageSize),
         total |-> Len(table)]

\* hasSelect: whether the adapter provides select and selectPage
SqlFind(table, options, hasSelect) ==
    IF hasSelect
    THEN applyFunctionalFilters(AdapterSelect(table, options), options)
    ELSE applyFunctionalFilters(AdapterSelectAll(table), options)

SqlFindPage(table, options, hasSelect) ==
    LET page     == Max(1, Nullish(options.page, DefaultPage))
        pageSize == Max(1, Nullish(options.pageSize, DefaultPageSize))
    IN  IF hasSelect
        THEN LET got        == AdapterSelectPage(table, options)
                 filtered   == applyFunctionalFilters(got.items, options)
                 totalPages == Max(1, CeilDiv(got.total, pageSize))
                 safePage   == Min(page, totalPages)
             IN  [items      |-> filtered,
                  page       |-> safePage,
                  pageSize   |-> pageSize,
                  totalItems |-> got.total,
                  totalPages |-> totalPages,
                  hasNext    |-> safePage < totalPages,
                  hasPrev    |-> safePage > 1]
        ELSE paginate(SqlFind(table, options, hasSelect), page, pageSize)

\* --------------------------------------------------- typeorm.strategy.ts
\* The repository: rows keyed by id.  save updates the row with the
\* entity's id with the properties the entity has, or inserts the entity;
\* remove deletes the row with the entity's id; findAndCount returns the
\* rows from skip on, at most take of them, and the count of all rows.
RepoHasId(table, id) == \E i \in 1..Len(table) : table[i].id = id
RepoSave(table, entity) ==
    IF RepoHasId(table, entity.id)
    THEN [i \in 1..Len(table) |->
            IF table[i].id = entity.id THEN Merge(table[i], entity)
            ELSE table[i]]
    ELSE Append(table, entity)
RepoRemove(table, entity) == SelectSeq(table, LAMBDA r : r.id # entity.id)
RepoFind(table) == table
RepoCount(table) == Len(table)
RepoFindAndCount(table, skip, take) ==
    <<Slice(table, skip, skip + take), Len(table)>>

\* Which repository calls of one strategy call raise: none; the first
\* (primary) call; the primary call and the fallback's find; the primary
\* call and the fallback's remove/save.
FaultPlans == {"none", "primary", "primary,find", "primary,write"}

TypeOrmAdd(table, entity, plan) ==
    IF plan # "none" THEN Fault(table)
    ELSE Ok(RepoSave(table, entity), "void")

\* Mutant of TypeOrmRemove: the fault of the primary remove is not caught.
TypeOrmRemoveNoFallback(table, entity, fn, plan) ==
    IF plan = "none" THEN Ok(RepoRemove(table, entity), TRUE)
    ELSE Fault(table)

TypeOrmRemove(table, entity, fn, plan) ==
    IF plan = "none" THEN Ok(RepoRemove(table, entity), TRUE)
    ELSE IF plan = "primary,find" THEN Fault(table)
    ELSE LET all   == RepoFind(table)
             index == FindIndex(all, entity, fn)
         IN  IF index = 0 THEN Ok(table, FALSE)
             ELSE IF plan = "primary,write" THEN Fault(table)
             ELSE Ok(RepoRemove(table, all[index]), TRUE)

TypeOrmUpdate(table, oldEntity, newEntity, fn, plan) ==
    IF plan = "none" THEN Ok(RepoSave(table, Merge(oldEntity, newEntity)), TRUE)
    ELSE IF plan = "primary,find" THEN Fault(table)
    ELSE LET all   == RepoFind(table)
             index == FindIndex(all, oldEntity, fn)
         IN  IF index = 0 THEN Ok(table, FALSE)
             ELSE IF plan = "primary,write" THEN Fault(table)
             ELSE Ok(RepoSave(table, Merge(all[index], newEntity)), TRUE)

TypeOrmGetOne(table, p) == FindFirst(RepoFind(table), p)

\* No where/order/relations/select is passed: repo.find()
TypeOrmFind(table, options) ==
    applyFunctionalFilters(RepoFind(table), options)

TypeOrmFindPage(table, options) ==
    LET page       == Max(1, Nullish(options.page, DefaultPage))
        pageSize   == Max(1, Nullish(options.pageSize, DefaultPageSize))
        skip       == (page - 1) * pageSize
        take       == pageSize
        got        == RepoFindAndCount(table, skip, take)
        items      == applyFunctionalFilters(got[1], options)
        totalItems == got[2]
        totalPages == Max(1, CeilDiv(totalItems, pageSize))
        safePage   == Min(page, totalPages)
    IN  [items      |-> items,
         page       |-> safePage,
         pageSize   |-> pageSize,
         totalItems |-> totalItems,
         totalPages |-> totalPages,
         hasNext    |-> safePage < totalPages,
         hasPrev    |-> safePage > 1]

\* ------------------------------------------------------------ strategy.ts
\* "memory": InMemoryEntityStrategy.  "bare": a list-backed strategy that
\* implements the mandatory operations only (no find, findPage, clear).
\* "sql" / "sqlNative": SqlEntityStrategy over an adapter without / with
\* select and selectPage.  "typeorm": TypeOrmEntityStrategy.
Strategies == {"memory", "bare", "sql", "sqlNative", "typeorm"}
HasFind(s) == s # "bare"
HasFindPage(s) == s # "bare"
HasClear(s) == s # "bare"

StrategyAdd(s, store, entity, plan) ==
    CASE s = "typeorm" -> TypeOrmAdd(store, entity, plan)
      [] s \in {"sql", "sqlNative"} -> Ok(AdapterInsert(store, entity), "void")
      [] OTHER -> Ok(InMemoryAdd(store, entity), "void")

StrategyRemove(s, store, entity, fn, plan) ==
    CASE s = "typeorm" -> TypeOrmRemove(store, entity, fn, plan)
      [] s \in {"sql", "sqlNative"} -> AdapterDelete(store, entity, fn)
      [] OTHER -> InMemoryRemove(store, entity, fn)

StrategyGetAll(s, store) ==
    CASE s = "typeorm" -> ArrayResult(RepoFind(store), FALSE)
      [] s \in {"sql", "sqlNative"} -> ArrayResult(AdapterSelectAll(store), FALSE)
      [] OTHER -> InMemoryGetAll(store)

StrategyUpdate(s, store, oldEntity, newEntity, fn, plan) ==
    CASE s = "typeorm" -> TypeOrmUpdate(store, oldEntity, newEntity, fn, plan)
      [] s \in {"sql", "sqlNative"} ->
            AdapterUpdate(store, oldEntity, newEntity, fn)
      [] OTHER -> InMemoryUpdate(store, oldEntity, newEntity, fn)

StrategyCount(s, store) ==
    CASE s = "typeorm" -> RepoCount(store)
      [] s \in {"sql", "sqlNative"} -> AdapterCountAll(store)
      [] OTHER -> InMemoryCount(store)

StrategyGetOne(s, store, p) ==
    CASE s = "typeorm" -> TypeOrmGetOne(store, p)
      [] s \in {"sql", "sqlNative"} -> FindFirst(AdapterSelectAll(store), p)
      [] OTHER -> InMemoryGetOne(store, p)

StrategyFind(s, store, options) ==
    CASE s = "typeorm" -> ArrayResult(TypeOrmFind(store, options), FALSE)
      [] s \in {"sql", "sqlNative"} ->
            ArrayResult(SqlFind(store, options, s = "sqlNative"), FALSE)
      [] OTHER -> InMemoryFind(store, options)

StrategyFindPage(s, store, options) ==
    CASE s = "typeorm" -> TypeOrmFindPage(store, options)
      [] s \in {"sql", "sqlNative"} ->
            SqlFindPage(store, options, s = "sqlNative")
      [] OTHER -> InMemoryFindPage(store, options)

\* The rows after clear, and whether they are still the same array object.
StrategyClear(s, store) ==
    CASE s = "memory" -> InMemoryClear(store)
      [] OTHER -> ArrayResult(<<>>, FALSE)

\* ---------------------------------------------------- management-entity.ts
addEntity(s, store, entity, plan) == StrategyAdd(s, store, entity, plan)

removeEntity(s, fn, store, entity, plan) ==
    StrategyRemove(s, store, entity, fn, plan)

getAllEntities(s, store) == StrategyGetAll(s, store)

updateEntity(s, fn, store, oldEntity, newEntity, plan) ==
    StrategyUpdate(s, store, oldEntity, newEntity, fn, plan)

getEntityCount(s, store) == StrategyCount(s, store)

getOneEntity(s, store, p) == StrategyGetOne(s, store, p)

findEntities(s, store, options) ==
    IF HasFind(s) THEN StrategyFind(s, store, options)
    ELSE LET all == StrategyGetAll(s, store)
         IN  ArrayResult(applyFunctionalFilters(all.items, options), FALSE)

findEntitiesPage(s, store, options) ==
    IF HasFindPage(s) THEN StrategyFindPage(s, store, options)
    ELSE LET filtered == findEntities(s, store, options).items
         IN  paginate(filtered, Nullish(options.page, DefaultPage),
                      Nullish(options.pageSize, DefaultPageSize))

\* The stored rows once findEntities / findEntitiesPage has returned.  The
\* in-memory strategy hands this.entities to applyFunctionalFilters; the
\* fallback hands it what getAll returned; the database strategies only
\* read (select, find, findAndCount).
storeAfterFind(s, store, options) ==
    IF s = "memory" THEN inputAfterFilters(store, options)
    ELSE IF ~HasFind(s) /\ StrategyGetAll(s, store).sameObject
    THEN inputAfterFilters(StrategyGetAll(s, store).items, options)
    ELSE store

\* Mutant of clearEntities: the capability is not checked.
clearEntitiesUnchecked(s, store) == ArrayResult(<<>>, FALSE)

\* await this.strategy.clear?.()
clearEntities(s, store) ==
    IF HasClear(s) THEN StrategyClear(s, store)
    ELSE ArrayResult(store, TRUE)

\* ------------------------------------------------------------------ inputs
FilterLists == {<<>>, <<"hasName">>, <<"hasName", "idIs1">>}
PageInputs == {None} \cup {Some(n) : n \in 0..(MaxStore + 1)}
PageSizeInputs == {None, Some(-1), Some(1), Some(2)}
FindOptions ==
    [predicate : {None, Some("idIs1")},
     filters   : FilterLists,
     sortBy    : {None} \cup {Some(c) : c \in ComparatorNames},
     page      : {None},
     pageSize  : {None}]
PageOptions ==
    [predicate : {None, Some("idIs1")},
     filters   : {<<>>, <<"hasName">>},
     sortBy    : {None, Some("byIdDesc")},
     page      : PageInputs,
     pageSize  : PageSizeInputs]
\* The options of the snapshot specification.
SnapOptions ==
    [predicate : {None, Some("idIs1")},
     filters   : {<<>>},
     sortBy    : {None, Some("byIdDesc")},
     page      : {None},
     pageSize  : {None}]
PlansOf(s) == IF s = "typeorm" THEN FaultPlans ELSE {"none"}
AddPlansOf(s) == IF s = "typeorm" THEN {"none", "primary"} ELSE {"none"}
\* The sequences paginate is called on directly.
SampleItems(n) ==
    [i \in 1..n |-> [id   |-> IF i % 2 = 1 THEN 1 ELSE 2,
                     name |-> IF i % 3 = 0 THEN "x" ELSE Missing]]
SampleLengths == {0, MaxItems \div 2, MaxItems}
SamplePages == {None} \cup {Some(n) : n \in 0..4}
SamplePageSizes == {None, Some(5)}

\* ------------------------------------------------------------------- state
VARIABLES
    strategy,     \* the strategy the manager was constructed with
    equalsFn,     \* the manager's equality policy
    entities,     \* the stored entities (this.entities, the table, the rows)
    last,         \* the call that has just returned, NoCall when none
    held,         \* an array a caller kept from getAllEntities/findEntities
    heldIsStore,  \* whether that array is the object in this.entities
    calls,        \* the manager calls issued without awaiting each other
    initial       \* the stored entities when the first of them was issued

vars ==
    <<strategy, equalsFn, entities, last, held, heldIsStore, calls, initial>>

\* The arguments of a call; a call sets the ones it takes.
NoEntity == [id |-> 0, name |-> Missing]
NoArgs ==
    [entity |-> NoEntity, oldEntity |-> NoEntity, newEntity |-> NoEntity,
     plan |-> "none", predicate |-> None, filters |-> <<>>, sortBy |-> None,
     page |-> None, pageSize |-> None, items |-> <<>>]
\* What a call returned; a call sets the field of its return type: bool
\* (removeEntity, updateEntity), count (getEntityCount), items and
\* sameObject (getAllEntities, findEntities), one (getOneEntity), page
\* (findEntitiesPage, paginate).  A void call sets none.
NoPage ==
    [items |-> <<>>, page |-> 0, pageSize |-> 0, totalItems |-> 0,
     totalPages |-> 0, hasNext |-> FALSE, hasPrev |-> FALSE]
Void ==
    [bool |-> FALSE, count |-> 0, items |-> <<>>, sameObject |-> FALSE,
     one |-> None, page |-> NoPage]
\* The boolean a remove/update returned (none when it raised).
Returned(r) ==
    IF r.outcome = "ok" THEN [Void EXCEPT !.bool = r.value] ELSE Void

NoCall ==
    [op |-> "none", args |-> NoArgs, before |-> <<>>, outcome |-> "ok",
     value |-> Void]
Call(op, args, outcome, value) ==
    [op |-> op, args |-> args, before |-> entities, outcome |-> outcome,
     value |-> value]

\* A call issued without awaiting the others: its arguments, the index its
\* findIndex found, the value it returns, and how many of its segments
\* (the stretches of code between suspension points) have run.
Tasks == 1..MaxTasks
NoTask ==
    [op |-> "none", entity |-> NoEntity, newEntity |-> NoEntity,
     index |-> 0, value |-> FALSE, segment |-> 0]
NoTasks == [t \in Tasks |-> NoTask]

Init ==
    /\ calls = NoTasks
    /\ initial = <<>>
    /\ strategy \in Strategies
    /\ equalsFn \in EqualsFns
    /\ entities = <<>>
    /\ last = NoCall
    /\ held = None
    /\ heldIsStore = FALSE

\* A call that changes the stored array in place: an array that is the same
\* object changes with it.
Mutation(op, args, r, value) ==
    /\ last.op = "none"
    /\ entities' = r.store
    /\ last' = Call(op, args, r.outcome, value)
    /\ held' = IF heldIsStore THEN Some(r.store) ELSE held
    /\ UNCHANGED <<calls, initial, strategy, equalsFn, heldIsStore>>

\* A call that only reads.
Query(op, args, value) ==
    /\ last.op = "none"
    /\ last' = Call(op, args, "ok", value)
    /\ UNCHANGED <<calls, initial, strategy, equalsFn, entities, held, heldIsStore>>

AddEntity(entity, plan) ==
    /\ Len(entities) < MaxStore
    /\ Mutation("add", [NoArgs EXCEPT !.entity = entity, !.plan = plan],
                addEntity(strategy, entities, entity, plan), Void)

RemoveEntity(entity, plan) ==
    LET r == removeEntity(strategy, equalsFn, entities, entity, plan)
    IN  Mutation("remove", [NoArgs EXCEPT !.entity = entity, !.plan = plan],
                 r, Returned(r))

UpdateEntity(oldEntity, newEntity, plan) ==
    LET r == updateEntity(strategy, equalsFn, entities, oldEntity, newEntity,
                          plan)
    IN  Mutation("update",
                 [NoArgs EXCEPT !.oldEntity = oldEntity,
                                !.newEntity = newEntity, !.plan = plan],
                 r, Returned(r))

\* The options of a call, as its arguments.
OptionArgs(options) ==
    [NoArgs EXCEPT !.predicate = options.predicate,
                   !.filters = options.filters,
                   !.sortBy = options.sortBy,
                   !.page = options.page,
                   !.pageSize = options.pageSize]
ArrayValue(r) == [Void EXCEPT !.items = r.items, !.sameObject = r.sameObject]

GetAllEntities ==
    Query("getAll", NoArgs, ArrayValue(getAllEntities(strategy, entities)))

GetEntityCount ==
    Query("count", NoArgs,
          [Void EXCEPT !.count = getEntityCount(strategy, entities)])

GetOneEntity(p) ==
    Query("getOne", [NoArgs EXCEPT !.predicate = Some(p)],
          [Void EXCEPT !.one = getOneEntity(strategy, entities, p)])

\* A filtered read: what it returns, and what it leaves stored.
Search(op, options, value) ==
    /\ last.op = "none"
    /\ last' = Call(op, OptionArgs(options), "ok", value)
    /\ entities' = storeAfterFind(strategy, entities, options)
    /\ UNCHANGED <<calls, initial, strategy, equalsFn, held, heldIsStore>>

FindEntities(options) ==
    Search("find", options,
           ArrayValue(findEntities(strategy, entities, options)))

FindEntitiesPage(options) ==
    Search("findPage", options,
           [Void EXCEPT !.page = findEntitiesPage(strategy, entities, options)])

\* clear replaces the stored array: an array that was the same object keeps
\* its items and is the stored array no longer.
ClearEntities ==
    LET r == clearEntities(strategy, entities)
    IN  /\ last.op = "none"
        /\ entities' = r.items
        /\ last' = Call("clear", NoArgs, "ok", Void)
        /\ heldIsStore' = (heldIsStore /\ r.sameObject)
        /\ UNCHANGED <<calls, initial, strategy, equalsFn, held>>

\* paginate called directly (it is exported by index.ts).
Paginate(n, page, pageSize) ==
    Query("paginate",
          [NoArgs EXCEPT !.items = SampleItems(n), !.page = page,
                         !.pageSize = pageSize],
          [Void EXCEPT !.page =
              paginate(SampleItems(n), Nullish(page, DefaultPage),
                       Nullish(pageSize, DefaultPageSize))])

\* The caller is done with the returned value.
Discard ==
    /\ last.op # "none"
    /\ last' = NoCall
    /\ UNCHANGED <<calls, initial, strategy, equalsFn, entities, held, heldIsStore>>

\* The caller keeps the array getAllEntities or findEntities returned.
Keep ==
    /\ last.op \in {"getAll", "find"}
    /\ held' = Some(last.value.items)
    /\ heldIsStore' = last.value.sameObject
    /\ last' = NoCall
    /\ UNCHANGED <<calls, initial, strategy, equalsFn, entities>>

\* The caller changes the array it holds.
CallerChange(items) ==
    /\ last.op = "none"
    /\ held # None
    /\ held' = Some(items)
    /\ entities' = IF heldIsStore THEN items ELSE entities
    /\ UNCHANGED <<calls, initial, strategy, equalsFn, last, heldIsStore>>

CallerPush(entity) ==
    /\ held # None
    /\ Len(held[1]) < MaxStore
    /\ CallerChange(Append(held[1], entity))

CallerPop ==
    /\ held # None
    /\ held[1] # <<>>
    /\ CallerChange(SubSeq(held[1], 1, Len(held[1]) - 1))

CallerReverse ==
    /\ held # None
    /\ Len(held[1]) >= 2
    /\ CallerChange([i \in 1..Len(held[1]) |-> held[1][Len(held[1]) + 1 - i]])

Release ==
    /\ last.op = "none"
    /\ held # None
    /\ held' = None
    /\ heldIsStore' = FALSE
    /\ UNCHANGED <<calls, initial, strategy, equalsFn, entities, last>>

\* One caller: it makes a call when the previous one has returned.
Idle == last.op = "none"

Next ==
    \/ Idle /\ \E e \in Entities, plan \in AddPlansOf(strategy) :
                    AddEntity(e, plan)
    \/ Idle /\ \E e \in Entities, plan \in PlansOf(strategy) :
                    RemoveEntity(e, plan)
    \/ Idle /\ \E o \in Entities, n \in Entities, plan \in PlansOf(strategy) :
                    UpdateEntity(o, n, plan)
    \/ Idle /\ GetAllEntities
    \/ Idle /\ GetEntityCount
    \/ Idle /\ \E p \in PredicateNames : GetOneEntity(p)
    \/ Idle /\ \E options \in FindOptions : FindEntities(options)
    \/ Idle /\ \E options \in PageOptions : FindEntitiesPage(options)
    \/ Idle /\ ClearEntities
    \/ Idle /\ \E n \in SampleLengths, page \in SamplePages,
                   pageSize \in SamplePageSizes : Paginate(n, page, pageSize)
    \/ Discard

Spec == Init /\ [][Next]_vars

\* The specification of what a caller can do with a returned array: the
\* in-memory strategy and the manager's own find over a bare strategy.
SnapInit ==
    /\ calls = NoTasks
    /\ initial = <<>>
    /\ strategy \in {"memory", "bare"}
    /\ equalsFn \in EqualsFns
    /\ entities = <<>>
    /\ last = NoCall
    /\ held = None
    /\ heldIsStore = FALSE

SnapNext ==
    \/ Idle /\ \E e \in SnapEntities : AddEntity(e, "none")
    \/ Idle /\ \E e \in SnapEntities : RemoveEntity(e, "none")
    \/ Idle /\ \E o \in SnapEntities, n \in SnapEntities :
                    UpdateEntity(o, n, "none")
    \/ Idle /\ GetAllEntities
    \/ Idle /\ GetEntityCount
    \/ Idle /\ \E options \in SnapOptions : FindEntities(options)
    \/ Idle /\ ClearEntities
    \/ Idle /\ \E e \in SnapEntities : CallerPush(e)
    \/ Idle /\ CallerPop
    \/ Idle /\ CallerReverse
    \/ Idle /\ Release
    \/ Discard
    \/ Keep

SnapSpec == SnapInit /\ [][SnapNext]_vars

\* ------------------------------------------- calls issued without awaiting
\* An async function runs from its call to its first await in one turn of
\* the event loop; each later stretch up to the next await or to the return
\* is another turn.  A call is the list of its segments, each the
\* statements that run in one turn.

\* InMemoryEntityStrategy.add pushes; ManagementEntity.addEntity awaits it.
addSegments == << <<"push">>, <<"settle">> >>

\* Mutant of removeSegments: remove suspends between findIndex and splice.
removeSegmentsSuspended == << <<"findIndex">>, <<"splice">>, <<"settle">> >>

\* InMemoryEntityStrategy.remove has no await between findIndex and splice;
\* ManagementEntity.removeEntity returns its promise.
removeSegments == << <<"findIndex", "splice">>, <<"settle">> >>

\* InMemoryEntityStrategy.update likewise.
updateSegments == << <<"findIndex", "assign">>, <<"settle">> >>

Segments(op) ==
    CASE op = "add" -> addSegments
      [] op = "remove" -> removeSegments
      [] OTHER -> updateSegments

\* One statement, on the stored array and the call's own locals.
Statement(stmt, st, fn) ==
    LET store == st.store
        call  == st.call
        index == call.index
    IN  CASE stmt = "push" ->
                [st EXCEPT !.store = InMemoryAdd(store, call.entity)]
          [] stmt = "findIndex" ->
                [st EXCEPT !.call.index = FindIndex(store, call.entity, fn)]
          [] stmt = "splice" ->
                IF index = 0 THEN [st EXCEPT !.call.value = FALSE]
                ELSE [store |-> IF index <= Len(store)
                                THEN Splice1(store, index) ELSE store,
                      call  |-> [call EXCEPT !.value = TRUE]]
          [] stmt = "assign" ->
                IF index = 0 THEN [st EXCEPT !.call.value = FALSE]
                ELSE [store |-> IF index <= Len(store)
                                THEN [store EXCEPT ![index] = call.newEntity]
                                ELSE store,
                      call  |-> [call EXCEPT !.value = TRUE]]
          [] OTHER -> st

RECURSIVE RunStatements(_, _, _)
RunStatements(stmts, st, fn) ==
    IF stmts = <<>> THEN st
    ELSE RunStatements(Tail(stmts), Statement(Head(stmts), st, fn), fn)

\* The next segment of a call runs to its end.
RunSegment(t, call) ==
    LET st == RunStatements(Segments(call.op)[call.segment + 1],
                            [store |-> entities, call |-> call], equalsFn)
    IN  /\ entities' = st.store
        /\ calls' = [calls EXCEPT ![t] =
                        [st.call EXCEPT !.segment = call.segment + 1]]
        /\ UNCHANGED <<strategy, equalsFn, last, held, heldIsStore, initial>>

\* The calls are numbered in the order the caller issues them.
NextTask(t) ==
    /\ calls[t].op = "none"
    /\ \A u \in 1..(t - 1) : calls[u].op # "none"

\* The caller issues a call: its first segment runs at once.
IssueAdd(t, entity) ==
    /\ NextTask(t)
    /\ Len(entities) < MaxStore
    /\ RunSegment(t, [NoTask EXCEPT !.op = "add", !.entity = entity])

IssueRemove(t, entity) ==
    /\ NextTask(t)
    /\ RunSegment(t, [NoTask EXCEPT !.op = "remove", !.entity = entity])

\* update looks for oldEntity, kept in the call's entity slot.
IssueUpdate(t, oldEntity, newEntity) ==
    /\ NextTask(t)
    /\ RunSegment(t, [NoTask EXCEPT !.op = "update", !.entity = oldEntity,
                                    !.newEntity = newEntity])

\* The event loop resumes a suspended call.
Resume(t) ==
    /\ calls[t].op # "none"
    /\ calls[t].segment < Len(Segments(calls[t].op))
    /\ RunSegment(t, calls[t])

\* The stored sequences the calls can find: up to two sample entities.
InitialStores ==
    {<<>>} \cup {<<a>> : a \in SnapEntities}
           \cup {<<a, b>> : a \in SnapEntities, b \in SnapEntities}

ConcInit ==
    /\ calls = NoTasks
    /\ strategy = "memory"
    /\ equalsFn \in EqualsFns
    /\ entities \in InitialStores
    /\ initial = entities
    /\ last = NoCall
    /\ held = None
    /\ heldIsStore = FALSE

ConcNext ==
    \/ \E t \in Tasks, e \in SnapEntities : IssueAdd(t, e)
    \/ \E t \in Tasks, e \in SnapEntities : IssueRemove(t, e)
    \/ \E t \in Tasks, o \in SnapEntities :
            \E n \in SnapEntities \ {o} : IssueUpdate(t, o, n)
    \/ \E t \in Tasks : Resume(t)

ConcSpec == ConcInit /\ [][ConcNext]_vars

\* ------------------------------------------------------ reference notions
\* What the claims are stated with; none of it is used by the model above.
Matches(options, e) ==
    /\ options.predicate # None => Predicate(options.predicate[1], e)
    /\ \A i \in DOMAIN options.filters : Predicate(options.filters[i], e)

Matching(store, options) == SelectSeq(store, LAMBDA e : Matches(options, e))

Range(f) == {f[i] : i \in DOMAIN f}

\* r is f in comparator order, elements that compare equal in f's order.
IsStableSortOf(r, f, c) ==
    /\ Len(r) = Len(f)
    /\ \A i \in 1..(Len(r) - 1) : Comparator(c, r[i], r[i + 1]) <= 0
    /\ \A x \in Range(f) \cup Range(r) :
          SelectSeq(r, LAMBDA y : Comparator(c, x, y) = 0)
              = SelectSeq(f, LAMBDA y : Comparator(c, x, y) = 0)

IsQueryResult(r, store, options) ==
    IF options.sortBy = None THEN r = Matching(store, options)
    ELSE IsStableSortOf(r, Matching(store, options), options.sortBy[1])

EqualIndexes(store, entity, fn) ==
    {i \in 1..Len(store) : Equals(fn, store[i], entity)}
Least(S) == CHOOSE i \in S : \A j \in S : i <= j
Without(store, k) == SubSeq(store, 1, k - 1) \o SubSeq(store, k + 1, Len(store))

\* The page and page size a findEntitiesPage call asked for.
RequestedPage == Max(1, Nullish(last.args.page, DefaultPage))
RequestedSize == Max(1, Nullish(last.args.pageSize, DefaultPageSize))
NativePaging == strategy \in {"sqlNative", "typeorm"}

\* ------------------------------------------------------------------ claims

\* C1: on the in-memory backend getEntityCount() is the number of stored
\* entities: an add raises it by exactly 1 (no dedup), a removeEntity that
\* returns true lowers it by exactly 1, and updateEntity and a removeEntity
\* that returns false leave it unchanged.
C1_CountTracksStore ==
    strategy = "memory" =>
        LET now    == getEntityCount(strategy, entities)
            before == getEntityCount(strategy, last.before)
        IN  /\ now = Len(entities)
            /\ last.op = "count" => last.value.count = Len(entities)
            /\ last.op = "add" => now = before + 1
            /\ last.op = "remove" =>
                    now = IF last.value.bool THEN before - 1 ELSE before
            /\ last.op = "update" => now = before

\* An entity that is already stored has been added again.
C1_Witness ==
    /\ strategy = "memory"
    /\ last.op = "add"
    /\ last.args.entity \in Range(last.before)
    /\ Len(entities) = 3

\* C2: an array returned by getAllEntities()/findEntities() is an
\* independent snapshot: a caller changing it never changes the store, and
\* a later add/remove/update/clear never changes it.
C2_SnapshotIndependent ==
    [][/\ (Idle /\ Idle' /\ held # None /\ held' # None)
            => entities' = entities
       /\ (Idle /\ last'.op \in {"add", "remove", "update", "clear"})
            => held' = held]_vars

\* An array is held, and the store has since been changed by the manager.
C2_Witness ==
    /\ held # None
    /\ last.op \in {"add", "remove", "update", "clear"}
    /\ entities # last.before
    /\ held[1] = last.before
    /\ held[1] # <<>>

\* C3 (as claimed): on every findPage path the page returned is
\* min(max(1, requested), totalPages), and a request past the end returns
\* the items of the last page.
C3_PastEndReturnsLastPage ==
    last.op = "findPage" =>
        LET r        == last.value.page
            lastPage == findEntitiesPage(strategy, last.before,
                            [last.args EXCEPT !.page = Some(r.totalPages)])
        IN  /\ r.page = Min(RequestedPage, r.totalPages)
            /\ RequestedPage > r.totalPages =>
                    /\ r.items = lastPage.items
                    /\ r.page = r.totalPages

\* C4 (as claimed): the native findPage of every strategy returns the items,
\* totalItems and totalPages of the manager's fallback (findEntities +
\* paginate) over the same data, totalItems being the count after filtering.
FallbackPage == findEntitiesPage("bare", last.before, last.args)
SameAsFallback ==
    /\ last.value.page.items = FallbackPage.items
    /\ last.value.page.totalItems = FallbackPage.totalItems
    /\ last.value.page.totalPages = FallbackPage.totalPages
    /\ last.value.page.totalItems = Len(Matching(last.before, last.args))
C4_NativeEqualsFallback ==
    last.op = "findPage" => SameAsFallback

\* C4 (amended): the fallback, the in-memory findPage and the SQL strategy
\* without selectPage agree; the selectPage and findAndCount paths report
\* the adapter's total (the count before the functional filters) and return
\* the functional filters and sort applied to the adapter's slice of the
\* requested page.
C4_FilterBeforeOrAfterSlice ==
    last.op = "findPage" =>
        IF NativePaging
        THEN /\ last.value.page.totalItems = Len(last.before)
             /\ last.value.page.totalPages =
                    Max(1, CeilDiv(Len(last.before), RequestedSize))
             /\ IsQueryResult(last.value.page.items,
                              Slice(last.before,
                                    (RequestedPage - 1) * RequestedSize,
                                    RequestedPage * RequestedSize),
                              last.args)
        ELSE SameAsFallback

\* The repository path has counted rows its functional predicate discards.
C4_Witness ==
    /\ strategy = "typeorm"
    /\ last.op = "findPage"
    /\ last.args.predicate # None
    /\ last.value.page.totalItems = 2
    /\ Len(Matching(last.before, last.args)) = 1
    /\ last.value.page.items = <<>>

\* C5: every page result has pageSize >= 1, totalPages = max(1,
\* ceil(totalItems / pageSize)), 1 <= page <= totalPages, hasNext = (page <
\* totalPages), hasPrev = (page > 1); with no items it is page 1 of 1, empty,
\* hasNext = hasPrev = false; omitted page and pageSize are 1 and 10.
C5_PageMetadata ==
    last.op = "findPage" =>
        LET r == last.value.page
        IN  /\ r.pageSize >= 1
            /\ r.totalPages >= 1
            /\ r.totalPages * r.pageSize >= r.totalItems
            /\ r.totalPages > 1 => (r.totalPages - 1) * r.pageSize < r.totalItems
            /\ 1 <= r.page /\ r.page <= r.totalPages
            /\ r.hasNext = (r.page < r.totalPages)
            /\ r.hasPrev = (r.page > 1)
            /\ r.totalItems = 0 =>
                    /\ r.page = 1 /\ r.totalPages = 1 /\ r.items = <<>>
                    /\ ~r.hasNext /\ ~r.hasPrev
            /\ last.args.page = None => r.page = 1
            /\ last.args.pageSize = None => r.pageSize = 10

\* A page past the end was asked of a store with nothing that matches.
C5_Witness ==
    /\ last.op = "findPage"
    /\ strategy = "memory"
    /\ last.args.page = Some(3)
    /\ last.args.pageSize = None
    /\ last.before # <<>>
    /\ last.value.page.totalItems = 0
    /\ last.value.page.page = 1

\* C6 (as claimed): in every page result items is the slice
\* [(page-1)*pageSize, page*pageSize) of the filtered and sorted sequence:
\* at most pageSize items, exactly pageSize on every page but the last, the
\* pages adding up to totalItems.
IsPageSliceOf(r, all) ==
    /\ r.items = Slice(all, (r.page - 1) * r.pageSize, r.page * r.pageSize)
    /\ Len(r.items) <= r.pageSize
    /\ Len(r.items) = IF r.page < r.totalPages THEN r.pageSize
                       ELSE r.totalItems - (r.totalPages - 1) * r.pageSize
C6_ItemsAreThePageSlice ==
    last.op = "findPage" =>
        IsPageSliceOf(last.value.page,
                      findEntities(strategy, last.before, last.args).items)

\* C6 (amended): that holds of paginate, of the in-memory findPage, of the
\* manager's fallback and of the SQL strategy without selectPage; on the
\* selectPage and findAndCount paths items has at most pageSize entries.
C6_SliceWhereFilteredFirst ==
    /\ last.op = "findPage" =>
            IF NativePaging
            THEN Len(last.value.page.items) <= last.value.page.pageSize
            ELSE IsPageSliceOf(last.value.page,
                    findEntities(strategy, last.before, last.args).items)
    /\ last.op = "paginate" =>
            /\ IsPageSliceOf(last.value.page, last.args.items)
            /\ (/\ Len(last.args.items) = 12
                 /\ last.args.pageSize = Some(5)
                 /\ last.args.page = Some(3))
                => /\ Len(last.value.page.items) = 2
                   /\ last.value.page.page = 3
                   /\ last.value.page.totalPages = 3
                   /\ ~last.value.page.hasNext
                   /\ last.value.page.hasPrev

\* 12 entities, pageSize 5, page 3.
C6_Witness ==
    /\ last.op = "paginate"
    /\ Len(last.args.items) = 12
    /\ last.args.pageSize = Some(5)
    /\ last.args.page = Some(3)
    /\ Len(last.value.page.items) = 2

C8_UpdateContract ==
    (last.op = "update" /\ last.args.plan = "none") =>
        LET hits == EqualIndexes(last.before, last.args.oldEntity, equalsFn)
        IN  /\ last.outcome = "ok"
            /\ last.value.bool = (hits # {})
            /\ entities = IF hits = {} THEN last.before
                          ELSE [last.before EXCEPT
                                    ![Least(hits)] = last.args.newEntity]

\* C9: clearEntities() on a strategy without clear changes nothing and
\* raises nothing; on the in-memory backend it empties the store, so the
\* count is 0 and getAllEntities() is empty.
C9_ClearContract ==
    last.op = "clear" =>
        /\ last.outcome = "ok"
        /\ strategy = "bare" =>
                /\ entities = last.before
                /\ getEntityCount(strategy, entities) = Len(last.before)
        /\ strategy = "memory" =>
                /\ entities = <<>>
                /\ getEntityCount(strategy, entities) = 0
                /\ getAllEntities(strategy, entities).items = <<>>

\* clearEntities() was called on a strategy without clear that holds two
\* entities.
C9_Witness ==
    /\ strategy = "bare"
    /\ last.op = "clear"
    /\ Len(entities) = 2

\* C10: findEntities returns, natively or through the fallback, exactly the
\* stored entities that satisfy the predicate and every filter, in stored
\* order, or with sortBy that sequence in comparator order, ties in
\* filtered order.
C10_FindContract ==
    last.op = "find" =>
        /\ last.outcome = "ok"
        /\ IsQueryResult(last.value.items, last.before, last.args)

\* The fallback has sorted three entities, two of which compare equal.
C10_Witness ==
    /\ strategy = "bare"
    /\ last.op = "find"
    /\ last.args.sortBy # None
    /\ Len(last.value.items) = 3
    /\ last.value.items # last.before
    /\ \E i \in 1..2 :
          /\ last.value.items[i].id = last.value.items[i + 1].id
          /\ last.value.items[i] # last.value.items[i + 1]

\* The positions of the stored entities that satisfy predicate p.
PredicateIndexes(store, p) == {i \in 1..Len(store) : Predicate(p, store[i])}

\* C11: on the in-memory backend addEntity(e) leaves the stored sequence as
\* it was with e appended at the end, and getOneEntity(p) returns the stored
\* entity at the least position that satisfies p, or the absent marker when
\* none does; neither raises.
C11_AppendAndFirstMatch ==
    /\ (strategy = "memory" /\ last.op = "add") =>
            /\ last.outcome = "ok"
            /\ entities = Append(last.before, last.args.entity)
    /\ (strategy = "memory" /\ last.op = "getOne") =>
            LET hits == PredicateIndexes(last.before, last.args.predicate[1])
            IN  /\ last.outcome = "ok"
                /\ last.value.one =
                      IF hits = {} THEN None
                      ELSE Some(last.before[Least(hits)])

\* Two different stored entities satisfy the predicate, neither is the
\* first stored one, and the earlier of the two was returned.
C11_Witness ==
    /\ strategy = "memory"
    /\ last.op = "getOne"
    /\ PredicateIndexes(last.before, last.args.predicate[1]) = {2, 3}
    /\ last.before[2] # last.before[3]
    /\ last.value.one = Some(last.before[2])

ReadOps == {"getAll", "count", "getOne", "find", "findPage"}

\* C12: once getAllEntities, getEntityCount, getOneEntity, findEntities or
\* findEntitiesPage has returned, the stored sequence is the one from before
\* the call, same entities in the same order, and a getAllEntities() issued
\* next returns it; a sortBy reorders only the returned array.
C12_ReadsLeaveStore ==
    last.op \in ReadOps =>
        /\ entities = last.before
        /\ getAllEntities(strategy, entities).items = last.before

\* The in-memory findEntities returned three stored entities in an order
\* other than the stored one.
C12_Witness ==
    /\ strategy = "memory"
    /\ last.op = "find"
    /\ last.args.sortBy # None
    /\ Len(last.value.items) = 3
    /\ last.value.items # last.before
    /\ entities = last.before

\* The entity a remove or an update looks for.
Target == IF last.op = "remove" THEN last.args.entity ELSE last.args.oldEntity

\* C13: on the repository strategy, a removeEntity / updateEntity whose
\* primary repo.remove / repo.save raised scans repo.find() with the equality
\* policy.  If that find raises, the call raises.  If no row is equal, the
\* call returns false and writes nothing.  Otherwise the first equal row is
\* removed, or saved merged with the new entity, and the call returns true;
\* if that second write raises, the call raises.
C13_FallbackScan ==
    (strategy = "typeorm" /\ last.op \in {"remove", "update"}
                          /\ last.args.plan # "none") =>
        LET hits  == EqualIndexes(last.before, Target, equalsFn)
            match == last.before[Least(hits)]
        IN  IF last.args.plan = "primary,find" THEN last.outcome = "fault"
            ELSE IF hits = {}
            THEN /\ last.outcome = "ok"
                 /\ ~last.value.bool
                 /\ entities = last.before
            ELSE IF last.args.plan = "primary,write"
            THEN last.outcome = "fault"
            ELSE /\ last.outcome = "ok"
                 /\ last.value.bool
                 /\ entities =
                       IF last.op = "remove"
                       THEN Without(last.before, Least(hits))
                       ELSE RepoSave(last.before,
                                     Merge(match, last.args.newEntity))

\* The primary remove raised, the scan found the second of two rows, and
\* that row is gone.
C13_Witness ==
    /\ strategy = "typeorm"
    /\ last.op = "remove"
    /\ last.args.plan = "primary"
    /\ Len(last.before) = 2
    /\ EqualIndexes(last.before, last.args.entity, equalsFn) = {2}
    /\ last.value.bool
    /\ entities = <<last.before[1]>>

\* The calls that have been issued, and those whose strategy code has run
\* to its return.
Issued == {t \in Tasks : calls[t].op # "none"}
Returning(t) == calls[t].segment >= Len(Segments(calls[t].op)) - 1

\* What call c does when it runs alone on store.
SerialCall(c, store) ==
    CASE c.op = "add" ->
            [store |-> addEntity("memory", store, c.entity, "none").store,
             value |-> FALSE]
      [] c.op = "remove" ->
            LET r == removeEntity("memory", equalsFn, store, c.entity, "none")
            IN  [store |-> r.store, value |-> r.value]
      [] OTHER ->
            LET r == updateEntity("memory", equalsFn, store, c.entity,
                                  c.newEntity, "none")
            IN  [store |-> r.store, value |-> r.value]

\* Running the calls one after another in this order, from the initial
\* store, gives each call the value it has and ends in the stored sequence.
RECURSIVE Replays(_, _)
Replays(order, store) ==
    IF order = <<>> THEN store = entities
    ELSE LET r == SerialCall(calls[Head(order)], store)
         IN  /\ r.value = calls[Head(order)].value
             /\ Replays(Tail(order), r.store)

Orders(S) ==
    {o \in [1..Cardinality(S) -> S] : \A i, j \in DOMAIN o : o[i] = o[j] => i = j}

TrueRemoves == {t \in Issued : calls[t].op = "remove" /\ calls[t].value}
Adds == {t \in Issued : calls[t].op = "add"}

\* C14: whenever every call issued so far on the in-memory backend has run
\* its strategy code, whatever the order in which the calls were issued and
\* resumed, (a) some serial order of the calls gives every call its value
\* and the stored sequence, (b) the count is the initial count plus the adds
\* minus the removes that returned true, and (c) if the calls are two
\* removeEntity calls for one entity stored exactly once, exactly one of
\* them returned true.
C14_SerialEquivalent ==
    (\A t \in Issued : Returning(t)) =>
        /\ \E order \in Orders(Issued) : Replays(order, initial)
        /\ Len(entities) =
              Len(initial) + Cardinality(Adds) - Cardinality(TrueRemoves)
        /\ \A t, u \in Issued :
              (/\ t # u
               /\ Issued = {t, u}
               /\ calls[t].op = "remove" /\ calls[u].op = "remove"
               /\ calls[t].entity = calls[u].entity
               /\ Cardinality(EqualIndexes(initial, calls[t].entity,
                                           equalsFn)) = 1)
                  => calls[t].value # calls[u].value

\* Two removeEntity calls for the second of two stored entities are both
\* outstanding, neither settled yet; the first returns true, the other
\* false, and the entity is gone.
C14_Witness ==
    /\ Len(initial) = 2
    /\ Issued = {1, 2}
    /\ calls[1].op = "remove" /\ calls[2].op = "remove"
    /\ calls[1].entity = calls[2].entity
    /\ EqualIndexes(initial, calls[1].entity, equalsFn) = {2}
    /\ calls[1].segment = 1 /\ calls[2].segment = 1
    /\ calls[1].value /\ ~calls[2].value
    /\ entities = <<initial[1]>>

====
